---- MODULE Spec2Model ----
(***************************************************************************)
(* State-machine model of src/testing.py: the news-article pipeline        *)
(* (get_news_with_retry, truncate_text and the body of main that runs     *)
(* when "Write Article" is pressed).                                       *)
(*                                                                         *)
(* Texts are modelled by their whitespace-delimited words (the value of    *)
(* str.split()), each word a triple <<kind, article, position>>.  An       *)
(* Optional[...] value is a sequence of length at most one: None is <<>>   *)
(* and a present value v is <<v>>.  A Python list of dicts that is aliased *)
(* (news_results holds the very objects of results) is modelled by a       *)
(* sequence of indexes into results.                                       *)
(***************************************************************************)
EXTENDS Integers, Sequences, FiniteSets, TLC

(***************************************************************************)
(* Bounds of the model.                                                    *)
(***************************************************************************)
\* longest list the search provider returns
MaxResults == 2
\* longest text (in words) the summarizer returns
MaxSummaryWords == 3
\* longest stream of deltas the writer yields
MaxChunks == 2
\* largest max_retries explored for get_news_with_retry on its own
MaxRetriesBound == 3
\* widget interactions of the user in one session
MaxInteractions == 2
\* st.rerun() calls explored after one interaction
MaxReruns == 3

(***************************************************************************)
(* Program constants.                                                      *)
(***************************************************************************)
\* def get_news_with_retry(..., max_retries: int = 3, ...)
DefaultMaxRetries == 3
\* def get_news_with_retry(..., initial_delay: float = 5.0)
DefaultInitialDelay == 5

VARIABLES
    stage,                      \* position of the run in main
    max_retries,                \* get_news_with_retry parameter
    initial_delay,              \* get_news_with_retry parameter
    num_search_results,         \* slider, passed as max_results
    per_article_summary_length, \* slider
    news_summary_length,        \* slider
    attempt,                    \* loop variable of get_news_with_retry
    events,                     \* collaborator calls, sleeps, st.warning/error/write
    results,                    \* value returned by get_news_with_retry
    ci,                         \* position of `for r in results`
    news_results,               \* list of collected articles (indexes into results)
    news_container,             \* last value written to news_container
    sj,                         \* position of `for news_result in news_results`
    sum_pc,                     \* position inside the summarizing loop body
    news_summary,               \* Optional[str]
    summary_container,          \* last value written to summary_container
    blocks,                     \* record of the blocks appended to news_summary
    assistants,                 \* assistants created so far
    article_draft,              \* Optional: the draft string
    final_report,               \* Optional: the accumulated report
    final_report_container,     \* last value written to final_report_container
    chunks,                     \* deltas yielded by article_writer.run so far
    deltas,                     \* the deltas themselves, in arrival order
    ddgs_log,                   \* DDGS() clients entered and exited, in order
    provider_list,              \* Optional: the list ddgs.news returned
    session_state,              \* st.session_state: the stored models
    summary_model,              \* value of the "Select Summary Model" box
    writer_model,               \* value of the "Select Writer Model" box
    write_article,              \* value of the "Write Article" button in this run
    interactions,               \* widget interactions of the user so far
    reruns                      \* st.rerun() calls since the last interaction

vars == <<stage, max_retries, initial_delay, num_search_results,
          per_article_summary_length, news_summary_length, attempt, events,
          results, ci, news_results, news_container, sj, sum_pc, news_summary,
          summary_container, blocks, assistants,
          article_draft, final_report, final_report_container, chunks,
          deltas, ddgs_log, provider_list, session_state, summary_model,
          writer_model, write_article, interactions, reruns>>

configVars == <<max_retries, initial_delay, num_search_results,
                per_article_summary_length, news_summary_length>>
collectVars == <<ci, news_results, news_container>>
summaryVars == <<sj, sum_pc, news_summary, summary_container, blocks>>
writeVars == <<article_draft, final_report, final_report_container, chunks,
               deltas>>
fetchLog == <<ddgs_log, provider_list>>
sessionVars == <<session_state, summary_model, writer_model, write_article,
                 interactions, reruns>>

(***************************************************************************)
(* Values.                                                                 *)
(***************************************************************************)
None == <<>>
Some(v) == <<v>>

\* a literal word of a format string
Lit(s) == <<s, 0, 0>>
\* the k-th word of a field of article a
Word(kind, a, k) == <<kind, a, k>>

Min(a, b) == IF a < b THEN a ELSE b

RECURSIVE Pow2(_)
Pow2(k) == IF k = 0 THEN 1 ELSE 2 * Pow2(k - 1)

\* all sequences over S of length at most n
SeqsUpTo(S, n) == UNION {[1..k -> S] : k \in 0..n}

(***************************************************************************)
(* The search provider: DDGS().news(keywords, max_results).  A result is a *)
(* dict; only the presence of its "url" key is tested by the code.  The    *)
(* code does not look at the length of the list it gets, so the provider   *)
(* may return any list, whatever max_results asked for.                    *)
(***************************************************************************)
ResultKeys == {{"url", "title", "date", "body"}, {"title", "date", "body"}}
SearchResult == [keys : ResultKeys, text : {<<>>}]
ProviderLists == SeqsUpTo(SearchResult, MaxResults)

(***************************************************************************)
(* get_news_with_retry                                                     *)
(***************************************************************************)
BackoffDelayOffByOne(initial, k) == initial * Pow2(k + 1)
\* delay = initial_delay * (2 ** attempt)
BackoffDelay(initial, k) == initial * Pow2(k)

HasAttemptsLeftOffByOne(k, n) == k < n
\* if attempt < max_retries - 1
HasAttemptsLeft(k, n) == k < n - 1

\* with DDGS() as ddgs: the client is entered, and exited when the block is
\* left, by a return or by an exception
EnterClient(log, k) == Append(log, <<"enter", k>>)
ExitClientNever(log, k) == log
ExitClient(log, k) == Append(log, <<"exit", k>>)

ListOfReversed(rs) == [i \in 1..Len(rs) |-> rs[Len(rs) + 1 - i]]
\* list(results): the items of the iterable, in its order
ListOf(rs) == [i \in 1..Len(rs) |-> rs[i]]

\* the attempt's provider call returns: `return list(results)`
FetchSuccess ==
    /\ stage = "Retrieving"
    /\ attempt < max_retries
    /\ \E rs \in ProviderLists :
          /\ provider_list' = Some(rs)
          /\ results' = ListOf(rs)
          /\ events' = Append(events, <<"call", "provider", attempt>>)
    /\ ddgs_log' = ExitClient(EnterClient(ddgs_log, attempt), attempt)
    /\ stage' = "Collecting"
    /\ UNCHANGED <<configVars, sessionVars, attempt, collectVars,
                   summaryVars, assistants, writeVars>>

\* the attempt raises and attempts remain: warn, sleep, next iteration
FetchFailRetry ==
    /\ stage = "Retrieving"
    /\ attempt < max_retries
    /\ HasAttemptsLeft(attempt, max_retries)
    /\ LET delay == BackoffDelay(initial_delay, attempt)
       IN events' = events \o <<<<"call", "provider", attempt>>,
                                <<"raise", "provider", attempt>>,
                                <<"warning", "fetch", delay>>,
                                <<"sleep", "fetch", delay>>>>
    /\ attempt' = attempt + 1
    /\ ddgs_log' = ExitClient(EnterClient(ddgs_log, attempt), attempt)
    /\ UNCHANGED provider_list
    /\ UNCHANGED <<stage, configVars, sessionVars, results,
                   collectVars, summaryVars, assistants, writeVars>>

\* the attempt raises and it was the last one: st.error, return []
FetchFailLast ==
    /\ stage = "Retrieving"
    /\ attempt < max_retries
    /\ ~HasAttemptsLeft(attempt, max_retries)
    /\ events' = events \o <<<<"call", "provider", attempt>>,
                             <<"raise", "provider", attempt>>,
                             <<"error", "fetch", max_retries>>>>
    /\ results' = <<>>
    /\ stage' = "Collecting"
    /\ ddgs_log' = ExitClient(EnterClient(ddgs_log, attempt), attempt)
    /\ UNCHANGED provider_list
    /\ UNCHANGED <<configVars, sessionVars, attempt, collectVars,
                   summaryVars, assistants, writeVars>>

\* range(max_retries) is exhausted without a return: the final `return []`
FetchExhausted ==
    /\ stage = "Retrieving"
    /\ attempt >= max_retries
    /\ results' = <<>>
    /\ stage' = "Collecting"
    /\ UNCHANGED <<configVars, sessionVars, fetchLog, attempt, events,
                   collectVars, summaryVars, assistants, writeVars>>

(***************************************************************************)
(* main: model selection                                                   *)
(***************************************************************************)
\* options of the "Select Summary Model" box; the first is the default
SummaryModels == <<"llama3-8b-8192", "mixtral-8x7b-32768", "llama3-70b-8192">>
\* options of the "Select Writer Model" box; the first is the default
WriterModels == <<"llama3-70b-8192", "llama3-8b-8192", "mixtral-8x7b-32768">>

(***************************************************************************)
(* main: "Write Article" pressed                                           *)
(***************************************************************************)
\* news_results = [] ; news_summary = None ; get_news_with_retry(...) is called
\* with the default max_retries and initial_delay
StartPipeline ==
    /\ stage = "Idle"
    /\ write_article
    /\ stage' = "Retrieving"
    /\ news_results' = <<>>
    /\ news_summary' = None
    /\ attempt' = 0
    /\ UNCHANGED <<configVars, sessionVars, fetchLog, events, results, ci,
                   news_container, sj, sum_pc, summary_container, blocks,
                   assistants, writeVars>>

(***************************************************************************)
(* main: the collecting loop, `for r in results`                           *)
(***************************************************************************)
\* the full text the scraper finds for result i
ArticleText(i) == <<Word("text", i, 1)>>

\* values newspaper_tools.get_article_data(url) may return for result i:
\* None, an empty dict, a dict without "text", a dict whose "text" is the
\* empty string, a dict with the article's text
ArticleData(i) ==
    { None,
      Some([keys |-> {}, text |-> <<>>]),
      Some([keys |-> {"title"}, text |-> <<>>]),
      Some([keys |-> {"title", "text"}, text |-> <<>>]),
      Some([keys |-> {"title", "text"}, text |-> ArticleText(i)]) }

\* truth value of a dict: it is non-empty
Truthy(d) == d /= None /\ d[1].keys /= {}

\* if article_data and "text" in article_data
KeepArticle(article_data) ==
    Truthy(article_data) /\ "text" \in article_data[1].keys

PrependResult(list, r) == <<r>> \o list
AppendResultTwice(list, r) == list \o <<r, r>>
\* news_results.append(r)
AppendResult(list, r) == Append(list, r)

ShouldPublishNever(list) == FALSE
ShouldPublishAlways(list) == TRUE
\* if news_results: news_container.write(news_results)
ShouldPublish(list) == list /= <<>>

\* `if "url" in r` is false: the result is passed over
CollectSkipNoUrl ==
    /\ stage = "Collecting"
    /\ ci <= Len(results)
    /\ "url" \notin results[ci].keys
    /\ ci' = ci + 1
    /\ UNCHANGED <<stage, configVars, sessionVars, fetchLog, attempt, events,
                   results, news_results, news_container, summaryVars,
                   assistants, writeVars>>

\* get_article_data returns: the result is kept (r["text"] set, appended,
\* snapshot written) or passed over
CollectScrape ==
    /\ stage = "Collecting"
    /\ ci <= Len(results)
    /\ "url" \in results[ci].keys
    /\ \E article_data \in ArticleData(ci) :
          IF KeepArticle(article_data)
          THEN /\ results' = [results EXCEPT ![ci] =
                                [keys |-> @.keys \cup {"text"},
                                 text |-> article_data[1].text]]
               /\ news_results' = AppendResult(news_results, ci)
               /\ IF ShouldPublish(news_results')
                  THEN /\ news_container' = Some(news_results')
                       /\ events' = events \o
                            <<<<"call", "scraper", ci>>,
                              <<"progress", "news", Len(news_results')>>>>
                  ELSE /\ news_container' = news_container
                       /\ events' = Append(events, <<"call", "scraper", ci>>)
          ELSE /\ events' = Append(events, <<"call", "scraper", ci>>)
               /\ UNCHANGED <<results, news_results, news_container>>
    /\ ci' = ci + 1
    /\ UNCHANGED <<stage, configVars, sessionVars, fetchLog, attempt,
                   summaryVars, assistants, writeVars>>

\* get_article_data raises: st.warning, the result is dropped
CollectScrapeRaises ==
    /\ stage = "Collecting"
    /\ ci <= Len(results)
    /\ "url" \in results[ci].keys
    /\ events' = events \o <<<<"call", "scraper", ci>>,
                             <<"raise", "scraper", ci>>,
                             <<"warning", "collect", ci>>>>
    /\ ci' = ci + 1
    /\ UNCHANGED <<stage, configVars, sessionVars, fetchLog, attempt,
                   results, news_results, news_container, summaryVars,
                   assistants, writeVars>>

\* if len(news_results) > 0
HasNewsAlways(list) == TRUE
HasNews(list) == Len(list) > 0

\* if news_summary is None: ... return
AfterSummaryStage(summary) ==
    IF summary = None THEN "SkippedNoNews" ELSE "Drafting"

\* the loop is over: final snapshot and status update, then either
\* news_summary = "" and the summarizer is created, or the None check
EndCollecting ==
    /\ stage = "Collecting"
    /\ ci > Len(results)
    /\ news_container' =
          IF ShouldPublish(news_results)
          THEN Some(news_results)
          ELSE news_container
    /\ LET published ==
              IF ShouldPublish(news_results)
              THEN Append(events, <<"progress", "news", Len(news_results)>>)
              ELSE events
       IN IF HasNews(news_results)
          THEN /\ news_summary' = Some(<<>>)
               /\ assistants' = assistants \cup {"summarizer"}
               /\ stage' = "Summarizing"
               /\ sj' = 1
               /\ sum_pc' = IF news_results = <<>> THEN "done" ELSE "header"
               /\ events' = published
          ELSE /\ stage' = AfterSummaryStage(news_summary)
               /\ events' = IF news_summary = None
                            THEN Append(published, <<"write", "no_results", 0>>)
                            ELSE published
               /\ UNCHANGED <<news_summary, assistants, sj, sum_pc>>
    /\ UNCHANGED <<configVars, sessionVars, fetchLog, attempt, results, ci,
                   news_results, summary_container, blocks, writeVars>>

(***************************************************************************)
(* truncate_text                                                           *)
(***************************************************************************)
\* " ".join(text.split()[:words])
truncate_text(text, words) ==
    IF words >= 0
    THEN SubSeq(text, 1, Min(words, Len(text)))
    ELSE SubSeq(text, 1, IF Len(text) + words > 0 THEN Len(text) + words ELSE 0)

(***************************************************************************)
(* main: the summarizing loop, `for news_result in news_results`           *)
(***************************************************************************)
\* "### {title}" "- Date: {date}" "- URL: {url}" "#### Introduction {body}"
BlockHeader(a) ==
    <<Lit("###"), Word("title", a, 1),
      Lit("-"), Lit("Date:"), Word("date", a, 1),
      Lit("-"), Lit("URL:"), Word("url", a, 1),
      Lit("####"), Lit("Introduction"), Word("body", a, 1)>>

\* "#### Summary" {_summary} "---"
BlockBody(summary) ==
    <<Lit("####"), Lit("Summary")>> \o summary \o <<Lit("---")>>

\* number of words of a block whose summary has n words
BlockWords(n) == Len(BlockHeader(0)) + Len(BlockBody(<<>>)) + n

\* texts article_summarizer.run may return for article a
Summaries(a) ==
    {[k \in 1..n |-> Word("summary", a, k)] : n \in 0..MaxSummaryWords}

\* if _summary_length > news_summary_length
NeedsTruncation(length, limit) == length > limit

ExceedsBudgetNever(length, budget) == FALSE
ExceedsBudgetOrEqual(length, budget) == length >= budget
\* if len(news_summary.split()) > news_summary_length
ExceedsBudget(length, budget) == length > budget

\* the block header is appended and article_summarizer.run is called
SummarizeHeader ==
    /\ stage = "Summarizing"
    /\ sum_pc = "header"
    /\ LET a == news_results[sj]
       IN /\ news_summary' = Some(news_summary[1] \o BlockHeader(a))
          /\ blocks' = Append(blocks, [article |-> a,
                                       start |-> Len(news_summary[1]),
                                       returned |-> None,
                                       summary |-> None])
          /\ events' = Append(events, <<"call", "summarizer", a>>)
    /\ sum_pc' = "call"
    /\ UNCHANGED <<stage, configVars, sessionVars, fetchLog, attempt,
                   results, collectVars, sj, summary_container, assistants,
                   writeVars>>

\* article_summarizer.run returns: truncate, append, publish, budget check
SummarizerReturns ==
    /\ stage = "Summarizing"
    /\ sum_pc = "call"
    /\ \E returned \in Summaries(news_results[sj]) :
          LET truncated == NeedsTruncation(Len(returned), news_summary_length)
              summary == IF truncated
                         THEN truncate_text(returned, news_summary_length)
                         ELSE returned
              text == news_summary[1] \o BlockBody(summary)
              stop == ExceedsBudget(Len(text), news_summary_length)
          IN /\ news_summary' = Some(text)
             /\ blocks' = [blocks EXCEPT ![Len(blocks)].returned = Some(returned),
                                         ![Len(blocks)].summary = Some(summary)]
             /\ summary_container' =
                   IF text /= <<>> THEN Some(text) ELSE summary_container
             /\ events' = events
                   \o (IF truncated
                       THEN <<<<"log", "truncated", news_results[sj]>>>>
                       ELSE <<>>)
                   \o (IF text /= <<>>
                       THEN <<<<"progress", "summary", Len(text)>>>>
                       ELSE <<>>)
                   \o (IF stop
                       THEN <<<<"log", "stopping", Len(text)>>>>
                       ELSE <<>>)
             /\ IF stop \/ sj = Len(news_results)
                THEN sum_pc' = "done" /\ sj' = sj
                ELSE sum_pc' = "header" /\ sj' = sj + 1
    /\ UNCHANGED <<stage, configVars, sessionVars, fetchLog, attempt,
                   results, collectVars, assistants, writeVars>>

\* article_summarizer.run raises: nothing catches it, the run is aborted
SummarizerRaises ==
    /\ stage = "Summarizing"
    /\ sum_pc = "call"
    /\ events' = Append(events, <<"raise", "summarizer", news_results[sj]>>)
    /\ stage' = "Failed"
    /\ UNCHANGED <<configVars, sessionVars, fetchLog, attempt, results,
                   collectVars, summaryVars, assistants, writeVars>>

\* the loop is over: final snapshot, status update, then the None check
EndSummarizing ==
    /\ stage = "Summarizing"
    /\ sum_pc = "done"
    /\ IF news_summary[1] /= <<>>
       THEN /\ summary_container' = news_summary
            /\ events' = Append(events,
                           <<"progress", "summary", Len(news_summary[1])>>)
       ELSE UNCHANGED <<summary_container, events>>
    /\ stage' = AfterSummaryStage(news_summary)
    /\ UNCHANGED <<configVars, sessionVars, fetchLog, attempt, results,
                   collectVars, sj, sum_pc, news_summary, blocks, assistants,
                   writeVars>>

(***************************************************************************)
(* main: the draft and the writer                                          *)
(***************************************************************************)
\* "# {use_case}: {article_topic}"
DraftTitle == <<Lit("#"), Lit("use_case:"), Lit("article_topic")>>

\* "## Summary of Articles on {article_topic}" and the framing sentence
DraftFraming ==
    <<Lit("##"), Lit("Summary"), Lit("of"), Lit("Articles"), Lit("on"),
      Lit("article_topic"),
      Lit("This"), Lit("section"), Lit("provides"), Lit("a"),
      Lit("comprehensive"), Lit("use_case"), Lit("summary"), Lit("about"),
      Lit("article_topic.")>>

\* article_draft as built from use_case, article_topic and news_summary
Draft(summary) ==
    DraftTitle \o
    (IF summary /= <<>>
     THEN DraftFraming \o <<Lit("<news_summary>")>> \o summary
            \o <<Lit("</news_summary>")>>
     ELSE <<>>)

\* the draft is built and shown, the writer is created, final_report = ""
BuildDraft ==
    /\ stage = "Drafting"
    /\ article_draft' = Some(Draft(news_summary[1]))
    /\ events' = Append(events, <<"progress", "draft", Len(Draft(news_summary[1]))>>)
    /\ assistants' = assistants \cup {"writer"}
    /\ final_report' = Some(<<>>)
    /\ stage' = "Generating"
    /\ UNCHANGED <<configVars, sessionVars, fetchLog, attempt, results,
                   collectVars, summaryVars, final_report_container, chunks, deltas>>

\* deltas the writer may yield as its k-th chunk
Deltas(k) == {<<Word("delta", 0, k)>>,
              <<Word("delta", 0, k), Word("delta", 1, k)>>}

PrependDelta(report, delta) == delta \o report
\* final_report += delta
AppendDelta(report, delta) == report \o delta

\* article_writer.run yields a delta: accumulate and publish
WriterYields ==
    /\ stage = "Generating"
    /\ chunks < MaxChunks
    /\ \E delta \in Deltas(chunks + 1) :
          /\ final_report' = Some(AppendDelta(final_report[1], delta))
          /\ deltas' = Append(deltas, delta)
          /\ final_report_container' = final_report'
          /\ events' = Append(events,
                         <<"progress", "report", Len(final_report'[1])>>)
    /\ chunks' = chunks + 1
    /\ UNCHANGED <<stage, configVars, sessionVars, fetchLog, attempt,
                   results, collectVars, summaryVars, assistants,
                   article_draft>>

\* the stream ends
WriterEnds ==
    /\ stage = "Generating"
    /\ stage' = "Done"
    /\ UNCHANGED <<configVars, sessionVars, fetchLog, attempt, events,
                   results, collectVars, summaryVars, assistants, writeVars>>

\* article_writer.run raises: nothing catches it, the run is aborted
WriterRaises ==
    /\ stage = "Generating"
    /\ events' = Append(events, <<"raise", "writer", chunks>>)
    /\ stage' = "Failed"
    /\ UNCHANGED <<configVars, sessionVars, fetchLog, attempt, results,
                   collectVars, summaryVars, assistants, writeVars>>

(***************************************************************************)
(* The session: script runs, model selection and st.rerun().  Streamlit    *)
(* runs the script from the top on every widget interaction, stopping the  *)
(* run in progress; st.rerun() does the same from inside the script.  The  *)
(* local variables of main and everything it displayed belong to one run;  *)
(* only st.session_state and the widget values outlive it.  The button is  *)
(* True only in the run its click started.                                 *)
(***************************************************************************)
pipelineVars == <<attempt, events, results, ci, news_results, news_container,
                  sj, sum_pc, news_summary, summary_container, blocks,
                  assistants, article_draft, final_report,
                  final_report_container, chunks, deltas, ddgs_log,
                  provider_list>>

\* the locals and displayed elements of a run that has just started
FreshRun ==
    /\ attempt' = 0
    /\ events' = <<>>
    /\ results' = <<>>
    /\ ci' = 1
    /\ news_results' = <<>>
    /\ news_container' = None
    /\ sj' = 0
    /\ sum_pc' = "idle"
    /\ news_summary' = None
    /\ summary_container' = None
    /\ blocks' = <<>>
    /\ assistants' = {}
    /\ article_draft' = None
    /\ final_report' = None
    /\ final_report_container' = None
    /\ chunks' = 0
    /\ deltas' = <<>>
    /\ ddgs_log' = <<>>
    /\ provider_list' = None

StoreModelNot(session, key, model) == session
\* st.session_state[key] = model
StoreModel(session, key, model) == [session EXCEPT ![key] = Some(model)]

\* "summary_model" is not in st.session_state, or holds the selected model:
\* the script goes on (storing the model in the first case)
CheckSummaryModel ==
    /\ stage = "SummaryModelCheck"
    /\ \/ /\ session_state.summary_model = None
          /\ session_state' =
                StoreModel(session_state, "summary_model", summary_model)
       \/ /\ session_state.summary_model = Some(summary_model)
          /\ UNCHANGED session_state
    /\ stage' = "WriterModelCheck"
    /\ UNCHANGED <<configVars, pipelineVars, summary_model, writer_model,
                   write_article, interactions, reruns>>

\* st.session_state["summary_model"] differs from the selected model: store
\* it and st.rerun()
RerunOnSummaryModel ==
    /\ stage = "SummaryModelCheck"
    /\ session_state.summary_model /= None
    /\ session_state.summary_model /= Some(summary_model)
    /\ reruns < MaxReruns
    /\ session_state' =
          StoreModel(session_state, "summary_model", summary_model)
    /\ reruns' = reruns + 1
    /\ write_article' = FALSE
    /\ stage' = "SummaryModelCheck"
    /\ FreshRun
    /\ UNCHANGED <<configVars, summary_model, writer_model, interactions>>

\* "writer_model" is not in st.session_state, or holds the selected model
CheckWriterModel ==
    /\ stage = "WriterModelCheck"
    /\ \/ /\ session_state.writer_model = None
          /\ session_state' =
                StoreModel(session_state, "writer_model", writer_model)
       \/ /\ session_state.writer_model = Some(writer_model)
          /\ UNCHANGED session_state
    /\ stage' = "Idle"
    /\ UNCHANGED <<configVars, pipelineVars, summary_model, writer_model,
                   write_article, interactions, reruns>>

\* st.session_state["writer_model"] differs from the selected model: store
\* it and st.rerun()
RerunOnWriterModel ==
    /\ stage = "WriterModelCheck"
    /\ session_state.writer_model /= None
    /\ session_state.writer_model /= Some(writer_model)
    /\ reruns < MaxReruns
    /\ session_state' =
          StoreModel(session_state, "writer_model", writer_model)
    /\ reruns' = reruns + 1
    /\ write_article' = FALSE
    /\ stage' = "SummaryModelCheck"
    /\ FreshRun
    /\ UNCHANGED <<configVars, summary_model, writer_model, interactions>>

\* `if write_article` is false: the script ends with the widgets shown
ScriptEnds ==
    /\ stage = "Idle"
    /\ ~write_article
    /\ stage' = "Waiting"
    /\ UNCHANGED <<configVars, pipelineVars, sessionVars>>

\* a widget interaction starts a new run of the script
NewScriptRun(button) ==
    /\ interactions < MaxInteractions
    /\ interactions' = interactions + 1
    /\ reruns' = 0
    /\ write_article' = button
    /\ stage' = "SummaryModelCheck"
    /\ FreshRun
    /\ UNCHANGED <<configVars, session_state>>

\* the user picks another option of "Select Summary Model"
UserSelectsSummaryModel ==
    /\ \E k \in 1..Len(SummaryModels) :
          /\ SummaryModels[k] /= summary_model
          /\ summary_model' = SummaryModels[k]
    /\ NewScriptRun(FALSE)
    /\ UNCHANGED writer_model

\* the user picks another option of "Select Writer Model"
UserSelectsWriterModel ==
    /\ \E k \in 1..Len(WriterModels) :
          /\ WriterModels[k] /= writer_model
          /\ writer_model' = WriterModels[k]
    /\ NewScriptRun(FALSE)
    /\ UNCHANGED summary_model

\* the user presses "Write Article"
UserPressesWriteArticle ==
    /\ NewScriptRun(TRUE)
    /\ UNCHANGED <<summary_model, writer_model>>

(***************************************************************************)
(* The pipeline run                                                        *)
(***************************************************************************)
\* The sliders are scaled down to the size of the modelled texts: a cap
\* below and a cap at the longest summary, a budget below the longest
\* summary and a budget that one block with a two-word summary meets exactly.
\* values of the "Length of Article Summaries" slider, in words
CapValues == {1, MaxSummaryWords}
\* values of the "Length of Draft" slider, in words
BudgetValues == {MaxSummaryWords - 1, BlockWords(2)}
\* values of the "Number of Search Results" slider
SearchResultValues == 1..MaxResults

Init ==
    /\ stage = "Idle"
    /\ max_retries = DefaultMaxRetries
    /\ initial_delay = DefaultInitialDelay
    /\ num_search_results \in SearchResultValues
    /\ per_article_summary_length \in CapValues
    /\ news_summary_length \in BudgetValues
    /\ attempt = 0
    /\ events = <<>>
    /\ results = <<>>
    /\ ci = 1
    /\ news_results = <<>>
    /\ news_container = None
    /\ sj = 0
    /\ sum_pc = "idle"
    /\ news_summary = None
    /\ summary_container = None
    /\ blocks = <<>>
    /\ assistants = {}
    /\ article_draft = None
    /\ final_report = None
    /\ final_report_container = None
    /\ chunks = 0
    /\ deltas = <<>>
    /\ ddgs_log = <<>>
    /\ provider_list = None
    /\ session_state = [summary_model |-> Some(SummaryModels[1]),
                        writer_model |-> Some(WriterModels[1])]
    /\ summary_model = SummaryModels[1]
    /\ writer_model = WriterModels[1]
    /\ write_article = TRUE
    /\ interactions = 0
    /\ reruns = 0

Next ==
    \/ StartPipeline
    \/ FetchSuccess
    \/ FetchFailRetry
    \/ FetchFailLast
    \/ CollectSkipNoUrl
    \/ CollectScrape
    \/ CollectScrapeRaises
    \/ EndCollecting
    \/ SummarizeHeader
    \/ SummarizerReturns
    \/ SummarizerRaises
    \/ EndSummarizing
    \/ BuildDraft
    \/ WriterYields
    \/ WriterEnds
    \/ WriterRaises

Spec == Init /\ [][Next]_vars

(***************************************************************************)
(* get_news_with_retry on its own, for every max_retries and initial_delay *)
(***************************************************************************)
DelayValues == {1, 3, DefaultInitialDelay}

InitFetch ==
    /\ stage = "Retrieving"
    /\ max_retries \in 0..MaxRetriesBound
    /\ initial_delay \in DelayValues
    /\ num_search_results = MaxResults
    /\ per_article_summary_length = MaxSummaryWords
    /\ news_summary_length = MaxSummaryWords
    /\ attempt = 0
    /\ events = <<>>
    /\ results = <<>>
    /\ ci = 1
    /\ news_results = <<>>
    /\ news_container = None
    /\ sj = 0
    /\ sum_pc = "idle"
    /\ news_summary = None
    /\ summary_container = None
    /\ blocks = <<>>
    /\ assistants = {}
    /\ article_draft = None
    /\ final_report = None
    /\ final_report_container = None
    /\ chunks = 0
    /\ deltas = <<>>
    /\ ddgs_log = <<>>
    /\ provider_list = None
    /\ session_state = [summary_model |-> Some(SummaryModels[1]),
                        writer_model |-> Some(WriterModels[1])]
    /\ summary_model = SummaryModels[1]
    /\ writer_model = WriterModels[1]
    /\ write_article = TRUE
    /\ interactions = 0
    /\ reruns = 0

NextFetch ==
    \/ FetchSuccess
    \/ FetchFailRetry
    \/ FetchFailLast
    \/ FetchExhausted

FetchSpec == InitFetch /\ [][NextFetch]_vars

(***************************************************************************)
(* A session: the first run of the script, then the user's interactions    *)
(***************************************************************************)
InitSession ==
    /\ stage = "SummaryModelCheck"
    /\ max_retries = DefaultMaxRetries
    /\ initial_delay = DefaultInitialDelay
    /\ num_search_results = MaxResults
    /\ per_article_summary_length = MaxSummaryWords
    /\ news_summary_length = BlockWords(2)
    /\ attempt = 0
    /\ events = <<>>
    /\ results = <<>>
    /\ ci = 1
    /\ news_results = <<>>
    /\ news_container = None
    /\ sj = 0
    /\ sum_pc = "idle"
    /\ news_summary = None
    /\ summary_container = None
    /\ blocks = <<>>
    /\ assistants = {}
    /\ article_draft = None
    /\ final_report = None
    /\ final_report_container = None
    /\ chunks = 0
    /\ deltas = <<>>
    /\ ddgs_log = <<>>
    /\ provider_list = None
    /\ session_state = [summary_model |-> None, writer_model |-> None]
    /\ summary_model = SummaryModels[1]
    /\ writer_model = WriterModels[1]
    /\ write_article = FALSE
    /\ interactions = 0
    /\ reruns = 0

NextSession ==
    \/ CheckSummaryModel
    \/ RerunOnSummaryModel
    \/ CheckWriterModel
    \/ RerunOnWriterModel
    \/ ScriptEnds
    \/ UserSelectsSummaryModel
    \/ UserSelectsWriterModel
    \/ UserPressesWriteArticle
    \/ Next

SessionSpec == InitSession /\ [][NextSession]_vars

(***************************************************************************)
(* Properties                                                              *)
(***************************************************************************)
EventsOf(kind, source) ==
    SelectSeq(events, LAMBDA e : e[1] = kind /\ e[2] = source)

LastEvent == IF events = <<>> THEN <<"none", "none", 0>> ELSE events[Len(events)]

ProviderCalls == EventsOf("call", "provider")
ProviderRaises == EventsOf("raise", "provider")
FetchSleeps == EventsOf("sleep", "fetch")
FetchErrors == EventsOf("error", "fetch")

\* the provider calls and the sleeps of the fetch, in the order they happened
CallsAndSleeps ==
    SelectSeq(events, LAMBDA e : \/ e[1] = "call" /\ e[2] = "provider"
                                 \/ e[1] = "sleep" /\ e[2] = "fetch")

\* n calls with the sleep d * 2^k between call k and call k+1
BackoffSchedule(n, d) ==
    [p \in 1..(2 * n - 1) |->
        IF p % 2 = 1
        THEN <<"call", "provider", (p - 1) \div 2>>
        ELSE <<"sleep", "fetch", d * 2 ^ ((p \div 2) - 1)>>]

FetchReturned == stage /= "Idle" /\ stage /= "Retrieving"
AllCallsRaised == Len(ProviderRaises) = Len(ProviderCalls)

\* C1: with max_retries = n >= 1 and a provider that raises on every call,
\* get_news_with_retry makes exactly n calls, sleeps initial_delay * 2^k
\* between call k and call k+1 (k = 0..n-2) and at no other time, and
\* returns the empty list.
C1_BackoffSchedule ==
    (FetchReturned /\ max_retries >= 1 /\ AllCallsRaised) =>
        /\ CallsAndSleeps = BackoffSchedule(max_retries, initial_delay)
        /\ Len(ProviderCalls) = max_retries
        /\ Len(FetchSleeps) = max_retries - 1
        /\ results = <<>>

C1_Witness ==
    /\ FetchReturned /\ AllCallsRaised
    /\ max_retries = MaxRetriesBound
    /\ initial_delay = 3
    /\ Len(FetchSleeps) = MaxRetriesBound - 1

AllAttemptsFailed == max_retries >= 1 /\ Len(ProviderRaises) = max_retries

\* C2: when all max_retries attempts fail, exactly one error is emitted,
\* right after the last attempt and as the last thing the fetch does; the
\* fetch returns the empty list to main, which goes through Collecting with
\* nothing collected and ends in SkippedNoNews with the no-results message.
C2_ExhaustionIsNotFatal ==
    AllAttemptsFailed =>
        /\ stage \in {"Collecting", "SkippedNoNews"}
        /\ Len(FetchErrors) = 1
        /\ \E p \in 1..(Len(events) - 1) :
              /\ events[p] = <<"raise", "provider", max_retries - 1>>
              /\ events[p + 1] = <<"error", "fetch", max_retries>>
              /\ \A q \in (p + 2)..Len(events) : events[q][2] = "no_results"
        /\ results = <<>>
        /\ news_results = <<>>
        /\ stage = "Collecting" => ENABLED EndCollecting
        /\ stage = "SkippedNoNews" =>
              /\ LastEvent = <<"write", "no_results", 0>>
              /\ article_draft = None /\ final_report = None

C2_Witness == AllAttemptsFailed /\ stage = "SkippedNoNews"

ScraperCalled(i) == \E p \in 1..Len(events) : events[p] = <<"call", "scraper", i>>
ScraperRaised(i) == \E p \in 1..Len(events) : events[p] = <<"raise", "scraper", i>>

\* C3: a result is in news_results only if its scrape returned without
\* raising and the text it returned is non-empty.
C3_OnlyNonEmptyText ==
    \A p \in 1..Len(news_results) :
        LET i == news_results[p]
        IN /\ ScraperCalled(i)
           /\ ~ScraperRaised(i)
           /\ results[i].text /= <<>>

IsSubsequenceOfResults(list) ==
    /\ \A p \in 1..Len(list) : list[p] \in 1..Len(results)
    /\ \A p, q \in 1..Len(list) : p < q => list[p] < list[q]

\* C4: news_results, and every snapshot of it written to news_container,
\* holds fetched results only, each at most once, in the order of the
\* fetched list.
C4_OrderPreserved ==
    /\ IsSubsequenceOfResults(news_results)
    /\ news_container /= None => IsSubsequenceOfResults(news_container[1])
    /\ \A p \in 1..Len(news_results) : news_results[p] < ci

C4_Witness ==
    /\ Len(news_results) = 2
    /\ news_container = Some(news_results)
    /\ stage = "Summarizing"

\* C5: the summary portion of every appended block has at most
\* per_article_summary_length words; a longer summary is cut to its first
\* per_article_summary_length words.
C5_SummaryWithinCap ==
    \A k \in 1..Len(blocks) :
        blocks[k].summary /= None =>
            LET returned == blocks[k].returned[1]
                cap == per_article_summary_length
            IN /\ Len(blocks[k].summary[1]) <= cap
               /\ blocks[k].summary[1] =
                     IF Len(returned) > cap
                     THEN SubSeq(returned, 1, cap)
                     ELSE returned

SummarizerCalls == EventsOf("call", "summarizer")

\* word count of news_summary once block k was appended in full
BlockEnd(k) ==
    IF k < Len(blocks) THEN blocks[k + 1].start ELSE Len(news_summary[1])

BlockComplete(k) == blocks[k].summary /= None

\* the summarizing loop was left with articles still unprocessed
StoppedEarly ==
    /\ blocks /= <<>>
    /\ Len(blocks) < Len(news_results)
    /\ \/ stage = "Summarizing" /\ sum_pc = "done"
       \/ stage \in {"Drafting", "Generating", "Done"}

\* C6: the articles that get a header and a summarizer call are a prefix of
\* news_results, each once and in order; once a complete block brings the
\* word count of news_summary above news_summary_length, no later article
\* gets a header or a summarizer call and the loop is over.
C6_StopsAfterCrossingBlock ==
    /\ Len(blocks) <= Len(news_results)
    /\ \A k \in 1..Len(blocks) : blocks[k].article = news_results[k]
    /\ Len(SummarizerCalls) = Len(blocks)
    /\ \A k \in 1..Len(blocks) :
          SummarizerCalls[k] = <<"call", "summarizer", news_results[k]>>
    /\ \A k \in 1..Len(blocks) :
          (BlockComplete(k) /\ BlockEnd(k) > news_summary_length) =>
              /\ k = Len(blocks)
              /\ stage = "Summarizing" => sum_pc = "done"

C6_Witness ==
    /\ stage = "Done"
    /\ Len(news_results) = 2
    /\ Len(blocks) = 1
    /\ Len(news_summary[1]) > news_summary_length

\* C7 as claimed: the loop stops at the first block after which the word
\* count is >= news_summary_length, so a block that is followed by another
\* one ended below the budget.
C7_StopsAtBudget ==
    /\ \A k \in 1..Len(blocks) : k < Len(blocks) => BlockEnd(k) < news_summary_length
    /\ StoppedEarly => Len(news_summary[1]) >= news_summary_length

\* C7 as amended: the loop stops at the first block after which the word
\* count is > news_summary_length; a block that ends at exactly the budget
\* is followed by the next article.
C7_StopsAboveBudget ==
    /\ \A k \in 1..Len(blocks) : k < Len(blocks) => BlockEnd(k) <= news_summary_length
    /\ StoppedEarly => Len(news_summary[1]) > news_summary_length
    /\ (stage = "Summarizing" /\ sum_pc = "header" /\ sj > 1) =>
          Len(news_summary[1]) <= news_summary_length

C7_Witness ==
    /\ Len(blocks) = 2
    /\ BlockEnd(1) = news_summary_length
    /\ stage = "Done"

\* C8: news_summary without its most recently appended block has at most
\* news_summary_length words, and the final news_summary ends with that
\* block in full.
C8_OvershootByOneBlock ==
    /\ blocks /= <<>> => blocks[Len(blocks)].start <= news_summary_length
    /\ (blocks /= <<>> /\ stage \in {"Drafting", "Generating", "Done"}) =>
          LET last == blocks[Len(blocks)]
          IN /\ BlockComplete(Len(blocks))
             /\ SubSeq(news_summary[1], last.start + 1, Len(news_summary[1]))
                   = BlockHeader(last.article) \o BlockBody(last.summary[1])

C8_Witness ==
    /\ stage = "Done"
    /\ Len(blocks) = 2
    /\ blocks[2].start > 0
    /\ Len(news_summary[1]) > news_summary_length

\* C9: when Collecting ends with nothing collected, no summarizer is created
\* or called, news_summary stays None (not the empty string), the
\* no-results message is the last thing emitted, no draft is built and the
\* writer is never created or run.
C9_NoNewsSkipsTheRest ==
    (news_results = <<>> /\ stage \notin {"Idle", "Retrieving", "Collecting"}) =>
        /\ stage = "SkippedNoNews"
        /\ assistants = {}
        /\ SummarizerCalls = <<>>
        /\ news_summary = None
        /\ news_summary /= Some(<<>>)
        /\ EventsOf("write", "no_results") = <<<<"write", "no_results", 0>>>>
        /\ LastEvent = <<"write", "no_results", 0>>
        /\ article_draft = None
        /\ final_report = None
        /\ chunks = 0

C9_Witness ==
    /\ stage = "SkippedNoNews"
    /\ Len(results) = MaxResults
    /\ \A i \in 1..Len(results) : "url" \in results[i].keys

StageOrder ==
    { <<"Idle", "Retrieving">>, <<"Retrieving", "Collecting">>,
      <<"Collecting", "Summarizing">>, <<"Collecting", "SkippedNoNews">>,
      <<"Summarizing", "Drafting">>, <<"Drafting", "Generating">>,
      <<"Generating", "Done">> }

\* C10: a run moves through Idle, Retrieving, Collecting, then either
\* SkippedNoNews or Summarizing, Drafting, Generating, Done, each stage once
\* and each entered when the previous one is complete; Failed is never
\* entered.
C10_StagesInOrder ==
    [][ /\ stage' /= stage => <<stage, stage'>> \in StageOrder
        /\ stage' /= "Failed"
        /\ (stage = "Collecting" /\ stage' /= stage) => ci > Len(results)
        /\ (stage = "Summarizing" /\ stage' /= stage) => sum_pc = "done"
        /\ (stage = "Drafting" /\ stage' /= stage) => article_draft' /= None
      ]_vars

CollaboratorFailed == \E p \in 1..Len(events) : events[p][1] = "raise"

\* C11: a failure of one collaborator call never aborts the run: the run
\* is never in Failed, it ends in Done or in SkippedNoNews, and it ends in
\* SkippedNoNews only when nothing was collected.
C11_FailuresNeverAbort ==
    /\ CollaboratorFailed => stage /= "Failed"
    /\ ~ENABLED Next => stage \in {"Done", "SkippedNoNews"}
    /\ stage = "SkippedNoNews" => news_results = <<>>
    /\ stage = "Done" => news_results /= <<>>

FetchWarnings == EventsOf("warning", "fetch")
CollectWarned(i) ==
    \E p \in 1..Len(events) : events[p] = <<"warning", "collect", i>>
Collected(i) == \E p \in 1..Len(news_results) : news_results[p] = i

\* C12: every failed provider attempt is followed by exactly one
\* notification (a warning when a retry follows, the error after the last
\* attempt), and every result whose scrape was tried and that was not
\* collected has a warning naming it.
C12_NoSilentFailure ==
    /\ Len(FetchWarnings) + Len(FetchErrors) = Len(ProviderRaises)
    /\ \A p \in 1..Len(events) :
          (events[p][1] = "raise" /\ events[p][2] = "provider") =>
              /\ p < Len(events)
              /\ events[p + 1][2] = "fetch"
              /\ events[p + 1][1] =
                    IF HasAttemptsLeft(events[p][3], max_retries)
                    THEN "warning" ELSE "error"
    /\ \A i \in 1..Len(results) :
          (i < ci /\ ScraperCalled(i) /\ ~Collected(i)) => CollectWarned(i)

RECURSIVE Flatten(_)
\* the concatenation of a sequence of texts
Flatten(texts) ==
    IF texts = <<>> THEN <<>>
    ELSE Flatten(SubSeq(texts, 1, Len(texts) - 1)) \o texts[Len(texts)]

ReportSnapshots == EventsOf("progress", "report")

\* C13: final_report is the concatenation of the deltas received so far, in
\* arrival order; each delta extends the buffer at its end and the extended
\* buffer is written to final_report_container at once.
C13_ReportAppendOnly ==
    /\ [](final_report /= None =>
            /\ final_report[1] = Flatten(deltas)
            /\ Len(deltas) = chunks
            /\ chunks > 0 => final_report_container = final_report
            /\ ReportSnapshots =
                  [k \in 1..chunks |->
                      <<"progress", "report",
                        Len(Flatten(SubSeq(deltas, 1, k)))>>])
    /\ [][(final_report /= None /\ final_report' /= final_report) =>
            /\ final_report' /= None
            /\ Len(deltas') = Len(deltas) + 1
            /\ final_report'[1] = final_report[1] \o deltas'[Len(deltas')]
            /\ Len(final_report'[1]) >= Len(final_report[1])
            /\ final_report_container' = final_report'
         ]_vars

C13_Witness ==
    /\ stage = "Done"
    /\ chunks = 2
    /\ Len(final_report[1]) = 3

\* C14 as claimed: never more collected articles than num_search_results.
C14_AtMostRequested == Len(news_results) <= num_search_results

\* C14 as amended: never more collected articles than results the provider
\* returned, hence at most num_search_results whenever the provider returned
\* at most that many.
C14_AtMostReturned ==
    /\ Len(news_results) <= Len(results)
    /\ (provider_list /= None /\ Len(provider_list[1]) <= num_search_results)
          => Len(news_results) <= num_search_results
    /\ provider_list = None => news_results = <<>>

C14_Witness ==
    /\ stage = "Summarizing"
    /\ provider_list /= None
    /\ Len(provider_list[1]) = num_search_results
    /\ Len(news_results) = num_search_results

\* C15: a change of the selected summarizer or writer model leaves the
\* fetched results, the collected articles, the summary and the generated
\* text of the run as they are.
C15_ModelChangeKeepsRun ==
    [][(summary_model' /= summary_model \/ writer_model' /= writer_model) =>
          /\ results' = results
          /\ news_results' = news_results
          /\ news_summary' = news_summary
          /\ final_report' = final_report
      ]_vars

\* n clients, each exited before the next is entered
ClientSchedule(n) ==
    [p \in 1..(2 * n) |->
        IF p % 2 = 1 THEN <<"enter", (p - 1) \div 2>>
                     ELSE <<"exit", (p \div 2) - 1>>]

\* C16: when the provider first succeeds on attempt k, get_news_with_retry
\* returns the provider's list after k+1 calls, k warnings and k sleeps,
\* with no error and nothing after the successful call; every client is
\* exited before the next attempt and before the return.
C16_FirstSuccess ==
    /\ ddgs_log = ClientSchedule(Len(ProviderCalls))
    /\ (FetchReturned /\ provider_list /= None) =>
          LET k == Len(ProviderRaises)
          IN /\ k < max_retries
             /\ Len(ProviderCalls) = k + 1
             /\ Len(FetchWarnings) = k
             /\ Len(FetchSleeps) = k
             /\ FetchErrors = <<>>
             /\ LastEvent = <<"call", "provider", k>>
             /\ results = provider_list[1]

C16_Witness ==
    /\ FetchReturned
    /\ provider_list /= None
    /\ Len(ProviderRaises) = 2
    /\ Len(provider_list[1]) = 2
    /\ provider_list[1][1] /= provider_list[1][2]

NewsSnapshots == EventsOf("progress", "news")

\* the snapshots written inside the collecting loop when n items were kept
LoopSnapshots(n) == [k \in 1..n |-> <<"progress", "news", k>>]

\* C17: inside the collecting loop one snapshot is written per kept item,
\* right after it is appended: it is the previous snapshot with that item
\* added, it is never empty, and the last one is the collected list.
C17_SnapshotPerKeptItem ==
    /\ [](/\ stage = "Collecting" =>
                NewsSnapshots = LoopSnapshots(Len(news_results))
          /\ news_container /= Some(<<>>)
          /\ news_container =
                IF news_results = <<>> THEN None ELSE Some(news_results)
          /\ SubSeq(NewsSnapshots, 1, Len(news_results))
                = LoopSnapshots(Len(news_results)))
    /\ [][(stage = "Collecting" /\ stage' = "Collecting") =>
            /\ news_results' /= news_results =>
                  /\ news_results' = Append(news_results, ci)
                  /\ news_container' = Some(news_results')
            /\ news_results' = news_results =>
                  /\ news_container' = news_container
                  /\ EventsOf("progress", "news")' = NewsSnapshots
         ]_vars

C17_Witness ==
    /\ stage = "Collecting"
    /\ Len(news_results) = 2
    /\ Len(NewsSnapshots) = 2

\* C18: from Drafting on, news_summary holds at least one complete block,
\* and the draft handed to the writer is the title, the framing paragraph
\* and the whole news_summary between the two markers.
C18_DraftHoldsSummary ==
    /\ stage \in {"Drafting", "Generating", "Done"} =>
          /\ news_summary /= None
          /\ news_summary[1] /= <<>>
          /\ blocks /= <<>>
          /\ BlockComplete(1)
    /\ article_draft /= None =>
          article_draft[1] =
              DraftTitle \o DraftFraming \o <<Lit("<news_summary>")>>
                \o news_summary[1] \o <<Lit("</news_summary>")>>
    /\ "writer" \in assistants => article_draft /= None

C18_Witness ==
    /\ stage = "Generating"
    /\ article_draft /= None
    /\ Len(blocks) = 2

\* the models whose stored value differs from the selected one
StaleModels ==
    {key \in {"summary_model", "writer_model"} :
        /\ session_state[key] /= None
        /\ session_state[key] /=
              Some(IF key = "summary_model" THEN summary_model
                                            ELSE writer_model)}

PastModelChecks == stage \notin {"SummaryModelCheck", "WriterModelCheck"}

\* C19: a run that is past the model checks has the selected models stored
\* in st.session_state, so no pipeline stage runs on a stale model; every
\* st.rerun() makes one more stored model equal to the selected one, so with
\* the selection held fixed there is at most one rerun per changed model.
C19_RerunsTerminate ==
    /\ [](/\ PastModelChecks =>
                /\ session_state.summary_model = Some(summary_model)
                /\ session_state.writer_model = Some(writer_model)
          /\ reruns + Cardinality(StaleModels) <= 2
          /\ (reruns > 0 /\ ~PastModelChecks) => ~write_article)
    /\ [][reruns' = reruns + 1 =>
            /\ Cardinality(StaleModels') = Cardinality(StaleModels) - 1
            /\ stage' = "SummaryModelCheck"
            /\ ~write_article'
         ]_vars

C19_Witness ==
    /\ reruns = 2
    /\ stage = "Waiting"
    /\ summary_model /= SummaryModels[1]
    /\ writer_model /= WriterModels[1]

====
